---- MODULE Spec2Model ----
(***************************************************************************)
(* Model of the test data generator (src/data_gen.py): start-up, the       *)
(* dispatch loop of main(), the three record generators, the fixture file  *)
(* write and the ledger (CSV file) append / truncate; and of the mock      *)
(* upload endpoint (src/data_rx.py).                                       *)
(*                                                                         *)
(* Granularity: one step per library call the code makes (a clock read, an *)
(* open, a write+close with the print that follows it).  A call on a file  *)
(* either returns, with its whole effect, or raises: a write that raises   *)
(* may have put nothing, a part, or all of its data into the file.  A      *)
(* print to stdout or stderr can raise as well.  The wall clock advances   *)
(* independently of the program (action Tick).                             *)
(***************************************************************************)
EXTENDS Integers, Sequences, FiniteSets, TLC

(***************************************************************************)
(* Bounds of the model.                                                    *)
(***************************************************************************)
StartEpoch == 1700000039      \* wall clock at process start, whole seconds
TicksPerSecond == 2           \* clock resolution: ticks in one second
MaxTicks == 2                 \* the clock advances at most this many ticks
MaxRequests == 2              \* selectors read by the loop
TzOffset == 0                 \* local time zone, seconds east of UTC
\* data_rx.py: threads handling requests at the same time, requests accepted
MaxThreads == 2
MaxUploads == 20
\* data_rx.py: every 20th upload is delayed
DelayEvery == 20

\* Python's None, and None where a text (a sequence) is expected
None == [none |-> TRUE]
NoLine == <<None>>

(***************************************************************************)
(* Text.  A text is a sequence of tokens: pieces of text that hold no      *)
(* separator, and the separators ",", "\n" and "/".                        *)
(***************************************************************************)
IntTok(n) == [int |-> n]
StrTok(s) == [str |-> s]
\* a file name built by FileName
NameTok(n) == [name |-> n]
\* a piece of text cut short: a non-empty proper prefix of the text of tok
CutTok(tok) == [cut |-> tok]
Comma == [sep |-> ","]
NL == [sep |-> "\n"]
Slash == [sep |-> "/"]

IsSep(t, s) == "sep" \in DOMAIN t /\ t.sep = s

\* text.split(s): the pieces between the separators s
RECURSIVE SplitAt(_, _, _)
SplitAt(text, s, cur) ==
  IF text = <<>> THEN <<cur>>
  ELSE IF IsSep(Head(text), s)
       THEN <<cur>> \o SplitAt(Tail(text), s, <<>>)
       ELSE SplitAt(Tail(text), s, Append(cur, Head(text)))

\* the physical lines of a text; the last element is the unterminated rest
\* (empty when the text ends with a newline)
Pieces(text) == SplitAt(text, "\n", <<>>)
CompleteLines(text) == SubSeq(Pieces(text), 1, Len(Pieces(text)) - 1)
PartialLine(text) == Pieces(text)[Len(Pieces(text))]
\* line.split(",")
Fields(line) == SplitAt(line, ",", <<>>)

IsPrefix(s, t) == Len(s) <= Len(t) /\ SubSeq(t, 1, Len(s)) = s

(***************************************************************************)
(* Configuration: the source directories the model is run with.  A         *)
(* directory is an absolute path, a sequence of components; a component is *)
(* a text, so that a directory name can hold a comma.                      *)
(***************************************************************************)
Dir(parts) == [abs |-> TRUE, dir |-> parts]
\* /data/src, /tmp and /data/in,out
SrcDirs ==
  {Dir(<< <<StrTok("data")>>, <<StrTok("src")>> >>),
   Dir(<< <<StrTok("tmp")>> >>),
   Dir(<< <<StrTok("data")>>, <<StrTok("in"), Comma, StrTok("out")>> >>)}

(***************************************************************************)
(* Keys the terminal can deliver: the nine documented selectors, their     *)
(* upper-case forms, and two keys that are no selector.                    *)
(***************************************************************************)
Documented == {" ", "1", "2", "3", "4", "r", "o", "t", "q"}
Keys == Documented \cup {"R", "O", "T", "Q", "x", "5"}

\* str.lower() on the keys above
Lower(k) ==
  CASE k = "R" -> "r"
    [] k = "O" -> "o"
    [] k = "T" -> "t"
    [] k = "Q" -> "q"
    [] OTHER -> k

(***************************************************************************)
(* Fixed payload and digests.  A file holds the payload or, after a write  *)
(* that was cut short, its first n bytes; Sha256 is tabulated on these     *)
(* contents.                                                               *)
(***************************************************************************)
\* contents are sequences of written chunks; the payload is one chunk
FILE_CONTENT == <<"test file content for pcap">>
EmptyContent == <<>>

\* FILE_CONTENT[:n] for n = 1 .. len(FILE_CONTENT)
PayloadPrefix ==
  <<
     "t",
     "te",
     "tes",
     "test",
     "test ",
     "test f",
     "test fi",
     "test fil",
     "test file",
     "test file ",
     "test file c",
     "test file co",
     "test file con",
     "test file cont",
     "test file conte",
     "test file conten",
     "test file content",
     "test file content ",
     "test file content f",
     "test file content fo",
     "test file content for",
     "test file content for ",
     "test file content for p",
     "test file content for pc",
     "test file content for pca",
     "test file content for pcap"
  >>

\* the content of a file that holds the first n bytes of the payload
PayloadCut(n) == IF n = 0 THEN EmptyContent ELSE <<PayloadPrefix[n]>>

\* the payload cut short by a write that raised after its first 10 bytes
TornContent == <<"test file ">>

\* hashlib.sha256(FILE_CONTENT[:n]).hexdigest() for n = 1 .. len(FILE_CONTENT)
PrefixDigest ==
  <<
     "e3b98a4da31a127d4bde6e43033f66ba274cab0eb7eb1c70ec41402bf6273dd8",
     "2d6c9a90dd38f6852515274cde41a8cd8e7e1a7a053835334ec7e29f61b918dd",
     "ce0f6c28b5869ff166714da5fe08554c70c731a335ff9702e38b00f81ad348c6",
     "9f86d081884c7d659a2feaa0c55ad015a3bf4f1b2b0b822cd15d6c15b0f00a08",
     "231aa78c52a74a572e40f4a5dcdf24961945a8431e8061974151ffd9c78da39c",
     "f1ab7bf33aecebe26aafde72d3fcf1e3433c5ca41cdfaaca4c4d22cb58911273",
     "e5a6a1425d36f97dd7dabbad5e03ee596edb2b84d80bee7f175fdf0e2e3043ca",
     "c7846c8ceff3edf70e3c97b860bb354afb12514d29bf0f75daebf727cb8018a3",
     "9a30a503b2862c51c3c5acd7fbce2f1f784cf4658ccf8e87d5023a90c21c0714",
     "a7415b048b23c76224c1d15a1f8e3b7fa458ab9d1472dbe8da77f6aaf7336d15",
     "0c2ea3293821dc37a6e10b4d62d7ec0369b90df2f8acaeac60584dbca7f33d8e",
     "05306cab57554cc1c148c08b197c153d5248b4ce79c7523abad97f60551b68a3",
     "7c0e272c1fe01694b5a94370f0967b81ee53ce5c0cb504e5f1c1a07f2bd27bf0",
     "944edf02fee4935234ad7f3bddc7a4459db4f37a268e185c8b7d949332a09da1",
     "0354a874a43794cbb36980e3e97184c042779c7e7d1cb89d368442edf6884172",
     "f09f003e34855742b5282b9b30c35f820716c410c91a8b3f988443b6a890c82b",
     "60f5237ed4049f0382661ef009d2bc42e48c3ceb3edb6600f7024e7ab3b838f3",
     "7a142b674b8360429f9214801e5133026d3bc22d0f368e7e1c990059947513c2",
     "25bee27b5210f0fdbaf2f61d7e808e9023dc093a3331f078294b813cb809d204",
     "f508ae3aacb38fbd5cf0fbf3cb40722b79f7eaa2feeb9bbf38d22fbb707f2fd9",
     "76ebf05bd4c7a4aa1f197cf05d0cbc33c5993784374d70727508de0a36f74985",
     "3c3edac6207ee5c9918b8f5f7e072e65a87d85f5fb7edf2e329d3f3e56c97064",
     "e2b6db21e2c17fb585e0a7743dce37592bb578f477880cdf6adbd00fb69478d2",
     "ccef0476d72b10a0fb1f83cf59c344ad07c8ef374d3190d41b5896dd76340c5f",
     "4df25aba29903a84ba06907c355601a2ecd21e87344c7cd92abf4d4f379b84bf",
     "550ad5715ce5981e229efb02cb26f730b5e5d6595c0724403de2d6a965d60c44"
  >>

Sha256(c) ==
  IF c = EmptyContent
    THEN "e3b0c44298fc1c149afbf4c8996fb92427ae41e4649b934ca495991b7852b855"
    ELSE PrefixDigest[CHOOSE n \in 1..Len(PayloadPrefix) : c = PayloadCut(n)]

\* hashlib.sha256(FILE_CONTENT).hexdigest()
FILE_HASH == Sha256(FILE_CONTENT)

(***************************************************************************)
(* Clock and time formatting.                                              *)
(***************************************************************************)
\* int(time.time()) when the clock shows tick t
EpochOf(t) == StartEpoch + (t \div TicksPerSecond)

\* days since 1970-01-01 -> <<year, month, day>> (proleptic Gregorian)
CivilFromDays(days) ==
  LET z   == days + 719468
      era == z \div 146097
      doe == z - era * 146097
      yoe == (doe - doe \div 1460 + doe \div 36524 - doe \div 146096) \div 365
      doy == doe - (365 * yoe + yoe \div 4 - yoe \div 100)
      mp  == (5 * doy + 2) \div 153
      d   == doy - (153 * mp + 2) \div 5 + 1
      m   == IF mp < 10 THEN mp + 3 ELSE mp - 9
      y   == yoe + era * 400 + (IF m <= 2 THEN 1 ELSE 0)
  IN  <<y, m, d>>

\* time.localtime(secs): broken-down local time
Localtime(secs) ==
  LET ls  == secs + TzOffset
      ymd == CivilFromDays(ls \div 86400)
      sod == ls % 86400
  IN  [year |-> ymd[1], mon |-> ymd[2], mday |-> ymd[3],
       hour |-> sod \div 3600, min |-> (sod % 3600) \div 60, sec |-> sod % 60]

\* time.strftime('%Y%m%d-%H%M%S', tm): the two digit groups as numbers
Strftime(tm) ==
  [ymd |-> tm.year * 10000 + tm.mon * 100 + tm.mday,
   hms |-> tm.hour * 10000 + tm.min * 100 + tm.sec]

\* f"MAH11-{stamp}.pcap"
FileName(stamp) == [stem |-> "MAH11-", stamp |-> stamp, suffix |-> ".pcap"]

(***************************************************************************)
(* Paths.                                                                  *)
(***************************************************************************)
\* directory / filename
Join(d, name) == [abs |-> d.abs, dir |-> d.dir, name |-> name]
\* a bare filename used as a path
Bare(name) == [abs |-> FALSE, dir |-> <<>>, name |-> name]
TmpDir == Dir(<< <<StrTok("tmp")>> >>)

\* str() of a directory: "/" and the component, for each component
RECURSIVE DirStr(_)
DirStr(parts) ==
  IF parts = <<>> THEN <<>>
  ELSE <<Slash>> \o Head(parts) \o DirStr(Tail(parts))

\* str(path), as the f-strings put it into a record: the text of the
\* directory, "/" and the file name; the bare file name for a relative path
PathStr(p) ==
  IF p.abs THEN DirStr(p.dir) \o <<Slash, NameTok(p.name)>>
           ELSE <<NameTok(p.name)>>

(***************************************************************************)
(* Record formatters.                                                      *)
(***************************************************************************)
\* f"{epoch_time},{file_path},{FILE_HASH}\n"
FormatRecord(epoch, path) ==
  <<IntTok(epoch), Comma>> \o PathStr(path) \o <<Comma, StrTok(FILE_HASH), NL>>

\* variant: the record is returned also when the file was not written
ValidResultAlways(ok, epoch, path) == FormatRecord(epoch, path)
\* what generate_valid_record returns as csv_line: the record when the file
\* was written, None when the try block raised
ValidResult(ok, epoch, path) == IF ok THEN FormatRecord(epoch, path) ELSE NoLine

\* generate_error_record, after its two clock reads
generate_error_record(error_type, epoch, src, name) ==
  LET valid_path == Join(src, name)
  IN  CASE error_type = "missing_field" -> <<IntTok(epoch), NL>>
        [] error_type = "empty_path" ->
             <<IntTok(epoch), Comma, Comma, StrTok(FILE_HASH), NL>>
        [] error_type = "extra_row" ->
             FormatRecord(epoch, valid_path) \o
             <<StrTok("EXTRA"), Comma, StrTok("ROW"), Comma, StrTok("DATA"), NL>>
        [] error_type = "garbled" ->
             <<StrTok("garbled data"), Comma, StrTok(" not"), Comma,
               StrTok(" even close"), NL, StrTok("to csv format!"), NL>>
        [] OTHER -> FormatRecord(epoch, valid_path)

\* variant: "relative" is given the directory of "outside"
generate_fail_record_InTmp(fail_type, epoch, name, tmpOk) ==
  LET file_path_str ==
        CASE fail_type = "relative" -> Join(TmpDir, name)
          [] fail_type = "outside" ->
               IF tmpOk THEN Join(TmpDir, name) ELSE Bare(name)
          [] OTHER -> Bare(name)
  IN  FormatRecord(epoch, file_path_str)
\* generate_fail_record, after its two clock reads; tmpOk: mkdir("/tmp") did
\* not raise
generate_fail_record(fail_type, epoch, name, tmpOk) ==
  LET file_path_str ==
        CASE fail_type = "relative" -> Bare(name)
          [] fail_type = "outside" ->
               IF tmpOk THEN Join(TmpDir, name) ELSE Bare(name)
          [] OTHER -> Bare(name)
  IN  FormatRecord(epoch, file_path_str)

(***************************************************************************)
(* Files.                                                                  *)
(***************************************************************************)
\* the content of a file after open(mode) returned: "w"/"wb" empty it
OpenEffect(mode, content) ==
  IF mode \in {"w", "wb"} THEN <<>> ELSE content

\* variant: the ledger opened for writing where it is to be appended to
AppendModeW == "w"
\* the modes main() opens the ledger with, to append and to truncate
AppendMode == "a"
TruncateMode == "w"

\* the write calls that put a text into the ledger: the whole text at once
Writes(text) == <<text>>

\* what a write of `text` that raised can have put into the file: nothing,
\* the text up to a token, the text up to the inside of a token, or, when
\* it was the close or the print after the write that raised, all of it
WrittenByFailedWrite(text) ==
  {SubSeq(text, 1, i) : i \in 0..Len(text)}
    \cup {Append(SubSeq(text, 1, i - 1), CutTok(text[i])) :
            i \in {j \in 1..Len(text) : "sep" \notin DOMAIN text[j]}}

\* what a write of the payload that raised can have put into the file:
\* nothing, its first n bytes, or, when it was the close or the print after
\* the write that raised, all of it
WrittenByFailedPayloadWrite == {PayloadCut(n) : n \in 0..Len(PayloadPrefix)}

\* csv_file.truncate(n)
Truncate(content, n) == SubSeq(content, 1, n)

(***************************************************************************)
(* Dispatch of main(): the first step of the branch taken for ch.          *)
(***************************************************************************)
\* variant: a key no branch matches is handed to generate_error_record
DispatchElseRecord(c) ==
  CASE c = " " -> "valid_time"
    [] c \in {"1", "2", "3", "4"} -> "error_time"
    [] c \in {"r", "o"} -> "fail_time"
    [] c = "t" -> "truncate_open"
    [] c = "q" -> "quit"
    [] OTHER -> "error_time"
\* variant: no branch for "t"
DispatchNoTruncate(c) ==
  CASE c = " " -> "valid_time"
    [] c \in {"1", "2", "3", "4"} -> "error_time"
    [] c \in {"r", "o"} -> "fail_time"
    [] c = "q" -> "quit"
    [] OTHER -> "WAITING"
\* variant: the missing_field selector takes the branch of the valid request
DispatchErrorAsValid(c) ==
  CASE c \in {" ", "1"} -> "valid_time"
    [] c \in {"2", "3", "4"} -> "error_time"
    [] c \in {"r", "o"} -> "fail_time"
    [] c = "t" -> "truncate_open"
    [] c = "q" -> "quit"
    [] OTHER -> "WAITING"
\* the if/elif chain of main()
Dispatch(c) ==
  CASE c = " " -> "valid_time"
    [] c \in {"1", "2", "3", "4"} -> "error_time"
    [] c \in {"r", "o"} -> "fail_time"
    [] c = "t" -> "truncate_open"
    [] c = "q" -> "quit"
    [] OTHER -> "WAITING"

ErrorType(c) ==
  CASE c = "1" -> "missing_field"
    [] c = "2" -> "empty_path"
    [] c = "3" -> "extra_row"
    [] c = "4" -> "garbled"
    [] OTHER -> "unknown"

FailType(c) == IF c = "r" THEN "relative" ELSE "outside"

(***************************************************************************)
(* data_rx.py: the threads of the server, and the state of a thread that   *)
(* handles no request.                                                     *)
(***************************************************************************)
Threads == 1..MaxThreads
\* k: arrival number of the request; reg: the value read by `+= 1`;
\* slept: time.sleep(6) was called
Idle == [pc |-> "idle", k |-> 0, reg |-> 0, slept |-> FALSE]

\* upload_counter % 20 == 0
IsDelayed(counter) == counter % DelayEvery = 0

(***************************************************************************)
(* What the process finds when it starts.                                  *)
(***************************************************************************)
\* the contents config.ini can have: no such file, text configparser rejects,
\* a file lacking a required option, or one naming the source directory
Configs ==
  {[state |-> s, source_dir |-> None] :
     s \in {"absent", "unparsable", "missing_key"}}
    \cup {[state |-> "ok", source_dir |-> d] : d \in SrcDirs}

\* the ledger an earlier run can have left: none or an empty one, or a line
PriorLedgers == {<<>>, <<IntTok(1600000000), Comma, Comma, StrTok("x"), NL>>}

\* the file name of the second the process starts in
PriorName == FileName(Strftime(Localtime(StartEpoch)))
\* files with path p holding content c
WithFile(fs, p, c) ==
  [q \in (DOMAIN fs) \cup {p} |-> IF q = p THEN c ELSE fs[q]]
NoFiles == [q \in {} |-> <<>>]
\* the fixture files an earlier run can have left in the directory d: none,
\* or a complete one
PriorFiles(d) == {NoFiles, WithFile(NoFiles, Join(d, PriorName), FILE_CONTENT)}

\* variant: the failure to create the directories is reported and start-up
\* goes on
StartupExceptGoesOn(resume) == resume
\* the except clauses of start-up end in sys.exit(1)
StartupExcept(resume) == "exited"

\* an except clause of main() or of a generator caught the error: the
\* program goes on at `resume`
Except(resume) == resume
\* an except clause reports with print(..., file=sys.stderr), which returns,
\* or raises and so ends main()
Reported(resume) == {Except(resume), "crashed"}
\* a print to stdout outside every try returns, or raises and so ends main()
Printed(resume) == {resume, "crashed"}

(***************************************************************************)
(* State.                                                                  *)
(***************************************************************************)
VARIABLES
  now,            \* the wall clock, in ticks since StartEpoch
  SRC_DIR_PATH,   \* configured source directory
  files,          \* the files of the file system: path -> content
  ledger,         \* content of the CSV file
  pc,             \* position of the process
  key,            \* the character getch() returned last
  ch,             \* key.lower()
  epoch_time,     \* local of the running generator
  filename,       \* local of the running generator
  file_path,      \* local of generate_valid_record
  csv_line_to_append,
  pending,        \* write calls of the append not yet made
  requests,       \* selectors read so far
  iterLedger,     \* history: the ledger when this iteration read its key
  iterFiles,      \* history: the files when this iteration read its key
  iterAppends,    \* history: write calls that put text into the ledger in
                  \* this iteration
  iterErrors,     \* history: errors reported (stderr) in this iteration
  fixtureFailed,  \* history: generate_valid_record took its except branch in
                  \* this iteration
  validRefs,      \* history: paths of the valid records now in the ledger
  config,         \* what config.ini holds
  startupFailed,  \* history: a start-up step has reported CRITICAL
  upload_counter, \* data_rx.py: the global counter
  handler,        \* data_rx.py: the state of each request-handling thread
  arrivals,       \* data_rx.py: requests accepted since process start
  responses       \* data_rx.py: what has been answered, by arrival number

vars == <<now, SRC_DIR_PATH, files, ledger, pc, key, ch, epoch_time, filename,
          file_path, csv_line_to_append, pending, requests, iterLedger,
          iterFiles, iterAppends, iterErrors, fixtureFailed, validRefs,
          config, startupFailed, upload_counter, handler, arrivals,
          responses>>

genVars == <<now, SRC_DIR_PATH, files, ledger, pc, key, ch, epoch_time,
             filename, file_path, csv_line_to_append, pending, requests,
             iterLedger, iterFiles, iterAppends, iterErrors, fixtureFailed,
             validRefs, config, startupFailed>>
rxVars == <<upload_counter, handler, arrivals, responses>>
startup == <<config, startupFailed>>
locals == <<epoch_time, filename, file_path, csv_line_to_append, pending>>
history == <<iterLedger, iterFiles, iterAppends, iterErrors, fixtureFailed>>

\* `if x:` on an Optional[str]
Truthy(x) == x # NoLine /\ x # <<>>

\* data_rx.py after import: upload_counter = 0, no request in progress
InitRx ==
  /\ upload_counter = 0
  /\ handler = [t \in Threads |-> Idle]
  /\ arrivals = 0
  /\ responses = {}

\* the process is at its first line; config.ini, the ledger and the source
\* directory are as earlier runs left them
Init ==
  /\ InitRx
  /\ now = 0
  /\ config \in Configs
  /\ SRC_DIR_PATH = None
  /\ files \in PriorFiles(IF config.state = "ok" THEN config.source_dir
                                                 ELSE TmpDir)
  /\ ledger \in PriorLedgers
  /\ pc = "load_config"
  /\ key = "" /\ ch = ""
  /\ epoch_time = 0 /\ filename = None /\ file_path = None
  /\ csv_line_to_append = NoLine
  /\ pending = <<>>
  /\ requests = 0
  /\ iterLedger = ledger
  /\ iterFiles = files
  /\ iterAppends = 0 /\ iterErrors = 0
  /\ fixtureFailed = FALSE
  /\ validRefs = {}
  /\ startupFailed = FALSE

(***************************************************************************)
(* Module level, lines 47-82: config.ini is read.  A missing file, a       *)
(* missing section or option, a parse error and any other exception in the *)
(* try each report CRITICAL and end in sys.exit(1).  With a complete       *)
(* config.ini this happens before SRC_DIR_PATH is assigned on line 66      *)
(* (config.read cannot open the file, so config.get raises, lines 62-64;   *)
(* resolve() on line 66 raises, lines 76-78) or after it (resolve() on     *)
(* line 67 or a print of lines 70-71 raises, lines 76-78).  The print of   *)
(* line 47 is in no try: when it raises the process ends with nothing      *)
(* assigned and nothing reported as CRITICAL.                              *)
(***************************************************************************)
LoadConfig ==
  /\ pc = "load_config"
  /\ \/ \* the print of line 47 raises
        /\ pc' = "exited"
        /\ UNCHANGED <<SRC_DIR_PATH, startupFailed>>
     \/ \* CRITICAL before line 66; the only outcome of an unusable config.ini
        /\ pc' = "exited"
        /\ startupFailed' = TRUE
        /\ UNCHANGED SRC_DIR_PATH
     \/ \* line 66 is reached and assigns; CRITICAL after it, or go on
        /\ config.state = "ok"
        /\ SRC_DIR_PATH' = config.source_dir
        /\ \/ pc' = "exited" /\ startupFailed' = TRUE
           \/ pc' = "ensure_dirs" /\ UNCHANGED startupFailed
  /\ UNCHANGED <<now, files, ledger, key, ch, locals, requests, history,
                 validRefs, config, rxVars>>

(***************************************************************************)
(* Module level, lines 93-99: the two mkdir calls and the print; when one  *)
(* raises the process exits.                                               *)
(***************************************************************************)
EnsureDirs ==
  /\ pc = "ensure_dirs"
  /\ \/ pc' = "enter_main" /\ UNCHANGED startupFailed
     \/ pc' = StartupExcept("enter_main") /\ startupFailed' = TRUE
  /\ UNCHANGED <<now, SRC_DIR_PATH, files, ledger, key, ch, locals, requests,
                 history, validRefs, config, rxVars>>

(***************************************************************************)
(* Lines 292-296 and 221-236: main() is called and prints the menu.        *)
(***************************************************************************)
EnterMain ==
  /\ pc = "enter_main"
  /\ pc' \in Printed("WAITING")
  /\ UNCHANGED <<now, SRC_DIR_PATH, files, ledger, key, ch, locals, requests,
                 history, validRefs, startup, rxVars>>

StartUp == LoadConfig \/ EnsureDirs \/ EnterMain

(***************************************************************************)
(* The clock advances.                                                     *)
(***************************************************************************)
Tick ==
  /\ UNCHANGED <<startup, rxVars>>
  /\ now < MaxTicks
  /\ now' = now + 1
  /\ UNCHANGED <<SRC_DIR_PATH, files, ledger, pc, key, ch, locals, requests,
                 history, validRefs>>

(***************************************************************************)
(* main(): ch = getch().lower() and the if/elif chain.  For a key no       *)
(* branch matches csv_line_to_append stays None and the loop waits again.  *)
(***************************************************************************)
ReadSelector ==
  /\ UNCHANGED <<startup, rxVars>>
  /\ pc = "WAITING"
  /\ requests < MaxRequests
  /\ \E k \in Keys :
       /\ key' = k
       /\ ch' = Lower(k)
       /\ pc' = Dispatch(Lower(k))
  /\ requests' = requests + 1
  /\ epoch_time' = 0 /\ filename' = None /\ file_path' = None
  /\ csv_line_to_append' = NoLine
  /\ pending' = <<>>
  /\ iterLedger' = ledger /\ iterFiles' = files
  /\ iterAppends' = 0 /\ iterErrors' = 0
  /\ fixtureFailed' = FALSE
  /\ UNCHANGED <<now, SRC_DIR_PATH, files, ledger, validRefs>>

\* getch(), lines 105-117, raises (stdin is no terminal, the terminal hangs
\* up): line 239 is in no try, the exception ends main()
GetchRaises ==
  /\ pc = "WAITING"
  /\ pc' = "crashed"
  /\ UNCHANGED <<now, SRC_DIR_PATH, files, ledger, key, ch, locals, requests,
                 history, validRefs, startup, rxVars>>

\* lines 277-279: the print and the break
Quit ==
  /\ pc = "quit"
  /\ pc' \in Printed("done")
  /\ UNCHANGED <<now, SRC_DIR_PATH, files, ledger, key, ch, locals, requests,
                 history, validRefs, startup, rxVars>>

\* epoch_time = int(time.time()), in each of the three generators
ReadTime ==
  /\ UNCHANGED <<startup, rxVars>>
  /\ pc \in {"valid_time", "error_time", "fail_time"}
  /\ epoch_time' = EpochOf(now)
  /\ pc' = CASE pc = "valid_time" -> "valid_local"
             [] pc = "error_time" -> "error_local"
             [] pc = "fail_time" -> "fail_local"
  /\ UNCHANGED <<now, SRC_DIR_PATH, files, ledger, key, ch, filename,
                 file_path, csv_line_to_append, pending, requests, history,
                 validRefs>>

\* the file name a generator builds from its second clock read
NameNow == FileName(Strftime(Localtime(EpochOf(now))))

(***************************************************************************)
(* generate_valid_record                                                   *)
(***************************************************************************)
ValidLocal ==
  /\ UNCHANGED <<startup, rxVars>>
  /\ pc = "valid_local"
  /\ filename' = NameNow
  /\ file_path' = Join(SRC_DIR_PATH, NameNow)
  /\ pc' = "valid_open"
  /\ UNCHANGED <<now, SRC_DIR_PATH, files, ledger, key, ch, epoch_time,
                 csv_line_to_append, pending, requests, history, validRefs>>

\* variant: the valid record is never handed to the append
AfterValidSkip(r) == "WAITING"
\* main(), lines 245-248 and 283: csv_line r came back from
\* generate_valid_record
AfterValid(r) == IF Truthy(r) THEN "append_open" ELSE "WAITING"

\* file_path.open("wb"): creates the file or empties the existing one
ValidOpen ==
  /\ UNCHANGED <<startup, rxVars>>
  /\ pc = "valid_open"
  /\ \/ /\ files' = WithFile(files, file_path,
                      OpenEffect("wb", IF file_path \in DOMAIN files
                                       THEN files[file_path] ELSE <<>>))
        /\ pc' = "valid_write"
        /\ UNCHANGED <<csv_line_to_append, iterErrors, fixtureFailed>>
     \/ /\ csv_line_to_append' = ValidResult(FALSE, epoch_time, file_path)
        /\ iterErrors' = iterErrors + 1
        /\ fixtureFailed' = TRUE
        /\ pc' \in Reported(AfterValid(csv_line_to_append'))
        /\ UNCHANGED files
  /\ UNCHANGED <<now, SRC_DIR_PATH, ledger, key, ch, epoch_time, filename,
                 file_path, pending, requests, iterLedger, iterFiles,
                 iterAppends, validRefs>>

\* f.write(FILE_CONTENT), the close at the end of the with block and the
\* print of line 136, all inside the try
ValidWrite ==
  /\ UNCHANGED <<startup, rxVars>>
  /\ pc = "valid_write"
  /\ \/ /\ files' = WithFile(files, file_path, files[file_path] \o FILE_CONTENT)
        /\ csv_line_to_append' = ValidResult(TRUE, epoch_time, file_path)
        /\ pc' = AfterValid(csv_line_to_append')
        /\ UNCHANGED <<iterErrors, fixtureFailed>>
     \/ /\ \E written \in WrittenByFailedPayloadWrite :
             files' = WithFile(files, file_path, files[file_path] \o written)
        /\ csv_line_to_append' = ValidResult(FALSE, epoch_time, file_path)
        /\ iterErrors' = iterErrors + 1
        /\ fixtureFailed' = TRUE
        /\ pc' \in Reported(AfterValid(csv_line_to_append'))
  /\ UNCHANGED <<now, SRC_DIR_PATH, ledger, key, ch, epoch_time, filename,
                 file_path, pending, requests, iterLedger, iterFiles,
                 iterAppends, validRefs>>

(***************************************************************************)
(* generate_error_record and generate_fail_record: the second clock read,  *)
(* the formatting and the print of the record, which is in no try.         *)
(***************************************************************************)
ErrorLocal ==
  /\ UNCHANGED <<startup, rxVars>>
  /\ pc = "error_local"
  /\ filename' = NameNow
  /\ \/ /\ csv_line_to_append' =
             generate_error_record(ErrorType(ch), epoch_time, SRC_DIR_PATH,
                                   NameNow)
        /\ pc' = IF Truthy(csv_line_to_append') THEN "append_open"
                                                ELSE "WAITING"
     \/ /\ pc' = "crashed"
        /\ UNCHANGED csv_line_to_append
  /\ UNCHANGED <<now, SRC_DIR_PATH, files, ledger, key, ch, epoch_time,
                 file_path, pending, requests, history, validRefs>>

FailLocal ==
  /\ UNCHANGED <<startup, rxVars>>
  /\ pc = "fail_local"
  /\ filename' = NameNow
  /\ \/ /\ \E tmpOk \in BOOLEAN :
             csv_line_to_append' =
               generate_fail_record(FailType(ch), epoch_time, NameNow, tmpOk)
        /\ pc' = IF Truthy(csv_line_to_append') THEN "append_open"
                                                ELSE "WAITING"
     \/ /\ pc' = "crashed"
        /\ UNCHANGED csv_line_to_append
  /\ UNCHANGED <<now, SRC_DIR_PATH, files, ledger, key, ch, epoch_time,
                 file_path, pending, requests, history, validRefs>>

(***************************************************************************)
(* main(), lines 283-289: append the generated text to the ledger.         *)
(***************************************************************************)
\* CSV_FILE_PATH.open("a")
AppendOpen ==
  /\ UNCHANGED <<startup, rxVars>>
  /\ pc = "append_open"
  /\ \/ /\ ledger' = OpenEffect(AppendMode, ledger)
        /\ pending' = Writes(csv_line_to_append)
        /\ pc' = "append_write"
        /\ UNCHANGED iterErrors
     \/ /\ iterErrors' = iterErrors + 1
        /\ pc' \in Reported("WAITING")
        /\ UNCHANGED <<ledger, pending>>
  /\ validRefs' = IF ledger' = <<>> THEN {} ELSE validRefs
  /\ UNCHANGED <<now, SRC_DIR_PATH, files, key, ch, epoch_time, filename,
                 file_path, csv_line_to_append, requests, iterLedger,
                 iterFiles, iterAppends, fixtureFailed>>

\* csv_file.write(csv_line_to_append), the close and the print of line 287,
\* all inside the try
AppendWrite ==
  /\ UNCHANGED <<startup, rxVars>>
  /\ pc = "append_write"
  /\ \/ /\ ledger' = ledger \o Head(pending)
        /\ pending' = Tail(pending)
        /\ iterAppends' = iterAppends + 1
        /\ validRefs' = IF ch = " " THEN validRefs \cup {file_path} ELSE validRefs
        /\ pc' = IF Tail(pending) = <<>> THEN "WAITING" ELSE "append_write"
        /\ UNCHANGED iterErrors
     \/ /\ \E written \in WrittenByFailedWrite(Head(pending)) :
             /\ ledger' = ledger \o written
             /\ iterAppends' = iterAppends + (IF written = <<>> THEN 0 ELSE 1)
             /\ validRefs' = IF ch = " " /\ written = Head(pending)
                             THEN validRefs \cup {file_path} ELSE validRefs
        /\ iterErrors' = iterErrors + 1
        /\ pc' \in Reported("WAITING")
        /\ UNCHANGED pending
  /\ UNCHANGED <<now, SRC_DIR_PATH, files, key, ch, epoch_time, filename,
                 file_path, csv_line_to_append, requests, iterLedger,
                 iterFiles, fixtureFailed>>

(***************************************************************************)
(* main(), lines 267-276: truncate the ledger.                             *)
(***************************************************************************)
\* CSV_FILE_PATH.open("w")
TruncateOpen ==
  /\ UNCHANGED <<startup, rxVars>>
  /\ pc = "truncate_open"
  /\ \/ /\ ledger' = OpenEffect(TruncateMode, ledger)
        /\ pc' = "truncate_call"
        /\ UNCHANGED iterErrors
     \/ /\ iterErrors' = iterErrors + 1
        /\ pc' \in Reported("WAITING")
        /\ UNCHANGED ledger
  /\ validRefs' = IF ledger' = <<>> THEN {} ELSE validRefs
  /\ UNCHANGED <<now, SRC_DIR_PATH, files, key, ch, locals, requests,
                 iterLedger, iterFiles, iterAppends, fixtureFailed>>

\* csv_file.truncate(0), the close and the print of line 272, all inside
\* the try; then `continue`
TruncateCall ==
  /\ UNCHANGED <<startup, rxVars>>
  /\ pc = "truncate_call"
  /\ \/ /\ ledger' = Truncate(ledger, 0)
        /\ pc' = "WAITING"
        /\ UNCHANGED iterErrors
     \/ /\ iterErrors' = iterErrors + 1
        /\ pc' \in Reported("WAITING")
        /\ UNCHANGED ledger
  /\ validRefs' = IF ledger' = <<>> THEN {} ELSE validRefs
  /\ UNCHANGED <<now, SRC_DIR_PATH, files, key, ch, locals, requests,
                 iterLedger, iterFiles, iterAppends, fixtureFailed>>

ProgramStep ==
  \/ ReadTime
  \/ ValidLocal
  \/ ValidOpen
  \/ ValidWrite
  \/ ErrorLocal
  \/ FailLocal
  \/ AppendOpen
  \/ AppendWrite
  \/ TruncateOpen
  \/ TruncateCall
  \/ Quit

Next ==
  \/ Tick
  \/ ReadSelector
  \/ GetchRaises
  \/ ProgramStep
  \/ StartUp

Spec == Init /\ [][Next]_vars

(***************************************************************************)
(* data_rx.py, upload(): the server hands each request to a thread.        *)
(***************************************************************************)
\* a request arrives and a thread starts upload() for it
Arrive(t) ==
  /\ handler[t].pc = "idle"
  /\ arrivals < MaxUploads
  /\ arrivals' = arrivals + 1
  /\ handler' = [handler EXCEPT ![t] = [Idle EXCEPT !.pc = "incr_load",
                                                   !.k = arrivals + 1]]
  /\ UNCHANGED <<upload_counter, responses, genVars>>

\* upload_counter += 1, the read of the global
IncrLoad(t) ==
  /\ handler[t].pc = "incr_load"
  /\ handler' = [handler EXCEPT ![t].reg = upload_counter,
                                ![t].pc = "incr_store"]
  /\ UNCHANGED <<upload_counter, arrivals, responses, genVars>>

\* upload_counter += 1, the write of the global
IncrStore(t) ==
  /\ handler[t].pc = "incr_store"
  /\ upload_counter' = handler[t].reg + 1
  /\ handler' = [handler EXCEPT ![t].reg = 0, ![t].pc = "check"]
  /\ UNCHANGED <<arrivals, responses, genVars>>

\* if upload_counter % 20 == 0: the global is read again
CheckDelay(t) ==
  /\ handler[t].pc = "check"
  /\ handler' = [handler EXCEPT
                   ![t].pc = IF IsDelayed(upload_counter) THEN "sleep"
                                                          ELSE "respond"]
  /\ UNCHANGED <<upload_counter, arrivals, responses, genVars>>

\* time.sleep(6)
Sleep(t) ==
  /\ handler[t].pc = "sleep"
  /\ handler' = [handler EXCEPT ![t].slept = TRUE, ![t].pc = "respond"]
  /\ UNCHANGED <<upload_counter, arrivals, responses, genVars>>

\* return "OK", 200
Respond(t) ==
  /\ handler[t].pc = "respond"
  /\ responses' = responses \cup
       {[k |-> handler[t].k, delayed |-> handler[t].slept,
         body |-> "OK", status |-> 200]}
  /\ handler' = [handler EXCEPT ![t] = Idle]
  /\ UNCHANGED <<upload_counter, arrivals, genVars>>

NextRx ==
  \E t \in Threads :
    \/ Arrive(t)
    \/ IncrLoad(t)
    \/ IncrStore(t)
    \/ CheckDelay(t)
    \/ Sleep(t)
    \/ Respond(t)

\* data_rx.py runs on its own: the generator's part of the state stays at
\* one of its initial values
InitRxAlone ==
  Init /\ config.state = "absent" /\ ledger = <<>> /\ files = NoFiles

SpecRx == InitRxAlone /\ [][NextRx]_vars

TypeOK ==
  /\ now \in 0..MaxTicks
  /\ pc \in {"WAITING", "valid_time", "valid_local", "valid_open", "valid_write",
             "error_time", "error_local", "fail_time", "fail_local",
             "append_open", "append_write", "truncate_open", "truncate_call",
             "quit", "done", "crashed",
             "load_config", "ensure_dirs", "enter_main", "exited"}
  /\ config \in Configs
  /\ startupFailed \in BOOLEAN
  /\ requests \in 0..MaxRequests

(***************************************************************************)
(* Reading the ledger as its consumer does.                                *)
(***************************************************************************)
LastLine(text) == CompleteLines(text)[Len(CompleteLines(text))]
\* a field that holds exactly one integer
IsIntField(f) == Len(f) = 1 /\ "int" \in DOMAIN f[1]
\* the text between the first and the last comma of a line
PathText(line) == SubSeq(line, 3, Len(line) - 2)

\* what the iteration has put behind the content it found
Appended == SubSeq(ledger, Len(iterLedger) + 1, Len(ledger))
\* the first line of what the iteration appended, split at the commas
AppendedFields == Fields(CompleteLines(Appended)[1])

\* the iteration of the selector ch has appended and reported no error, the
\* loop waiting again
AppendDone == pc = "WAITING" /\ iterAppends > 0 /\ iterErrors = 0
ValidAppended == ch = " " /\ AppendDone

(***************************************************************************)
(* C1: when the fixture write of a valid request fails (open or write      *)
(* raises), nothing is appended in that iteration: the ledger is what it   *)
(* was when the selector was read.                                         *)
(***************************************************************************)
C1_FailedWriteNoAppend ==
  fixtureFailed => ledger = iterLedger /\ iterAppends = 0

\* a write that failed part-way, with records already in the ledger
C1_Witness ==
  /\ fixtureFailed /\ ch = " " /\ pc = "WAITING"
  /\ ledger # <<>>
  /\ file_path \in DOMAIN files /\ files[file_path] = TornContent

(***************************************************************************)
(* C2: when the append of a valid request completes, the appended line has *)
(* three comma-separated fields; its path field names an existing file     *)
(* directly under the source directory that holds exactly the payload; its *)
(* digest field is the digest of that content.                             *)
(***************************************************************************)
C2_ValidRecordMatchesFile ==
  ValidAppended =>
    LET f == Fields(LastLine(ledger))
    IN  /\ Len(f) = 3
        /\ \E p \in DOMAIN files :
             /\ f[2] = PathStr(p)
             /\ p.abs /\ p.dir = SRC_DIR_PATH.dir
             /\ files[p] = FILE_CONTENT
             /\ f[3] = <<StrTok(Sha256(files[p]))>>

(***************************************************************************)
(* C3: in every state, every valid record in the ledger references a file  *)
(* that exists and holds the complete payload.                             *)
(***************************************************************************)
C3_ValidRecordsAlwaysBacked ==
  \A p \in validRefs : p \in DOMAIN files /\ files[p] = FILE_CONTENT

(***************************************************************************)
(* C4: an append puts its whole text into the ledger in one step: in every *)
(* state of an iteration the ledger is the content the iteration started   *)
(* with, or that content followed by the entire text; it never ends in an  *)
(* unterminated line.                                                      *)
(***************************************************************************)
C4_AppendIsAtomic ==
  /\ PartialLine(ledger) = <<>>
  /\ ch # "t" =>
       \/ ledger = iterLedger
       \/ Truthy(csv_line_to_append) /\ ledger = iterLedger \o csv_line_to_append

(***************************************************************************)
(* C5: for a valid request whose append completed, the date and time in    *)
(* the file name are the epoch field of the line converted to local time.  *)
(***************************************************************************)
C5_NameMatchesEpoch ==
  ValidAppended =>
    LET line == LastLine(ledger)
    IN  /\ "int" \in DOMAIN line[1]
        /\ \E i \in 1..Len(line) : "name" \in DOMAIN line[i]
        /\ \A i \in 1..Len(line) :
             "name" \in DOMAIN line[i] =>
               line[i].name.stamp = Strftime(Localtime(line[1].int))

(***************************************************************************)
(* The texts the formatter of the selector ch can have returned, computed  *)
(* from the values the generator read.                                     *)
(***************************************************************************)
FormatterTexts ==
  CASE ch = " " -> {FormatRecord(epoch_time, file_path)}
    [] ch \in {"1", "2", "3", "4"} ->
         {generate_error_record(ErrorType(ch), epoch_time, SRC_DIR_PATH, filename)}
    [] ch \in {"r", "o"} ->
         {generate_fail_record(FailType(ch), epoch_time, filename, b) :
            b \in BOOLEAN}
    [] OTHER -> {}

\* the iteration of the selector ch has ended without a reported error
IterationSucceeded ==
  requests > 0 /\ pc \in {"WAITING", "done"} /\ iterErrors = 0

(***************************************************************************)
(* C6, as stated: every documented selector other than truncate, when its  *)
(* action succeeds, makes exactly one append, of the formatter's text.     *)
(***************************************************************************)
C6_EveryNonTruncateAppendsOnce ==
  ch \in Documented \ {"t"} /\ IterationSucceeded =>
    /\ iterAppends = 1
    /\ \E text \in FormatterTexts : ledger = iterLedger \o text

(***************************************************************************)
(* C6, amended: every documented selector other than truncate and quit,    *)
(* when its action succeeds, makes exactly one append to the ledger, and   *)
(* the appended text is exactly the text its formatter returned.           *)
(***************************************************************************)
C6_FormatterSelectorsAppendOnce ==
  ch \in Documented \ {"t", "q"} /\ IterationSucceeded =>
    /\ iterAppends = 1
    /\ \E text \in FormatterTexts : ledger = iterLedger \o text

\* a valid record appended, in one write, to a ledger that had content
C6_Witness ==
  /\ ch = " " /\ IterationSucceeded
  /\ iterAppends = 1 /\ iterLedger # <<>>
  /\ ledger = iterLedger \o FormatRecord(epoch_time, file_path)

(***************************************************************************)
(* C7: a truncate iteration appends nothing and creates no file, and when  *)
(* it has succeeded the ledger is empty, whatever it held before.          *)
(***************************************************************************)
C7_TruncateEmptiesLedger ==
  ch = "t" =>
    /\ iterAppends = 0
    /\ files = iterFiles
    /\ IterationSucceeded => ledger = <<>>

\* a successful truncate of a ledger that held records
C7_Witness ==
  ch = "t" /\ IterationSucceeded /\ iterLedger # <<>> /\ ledger = <<>>

(***************************************************************************)
(* C8: every step that is not a step of the truncate action leaves the old *)
(* ledger content as a prefix of the new content, and so never lowers the  *)
(* number of lines.                                                        *)
(***************************************************************************)
C8_AppendMonotonic ==
  [][pc \notin {"truncate_open", "truncate_call"} =>
       \/ ledger' = ledger
       \/ /\ IsPrefix(ledger, ledger')
          /\ Len(CompleteLines(ledger')) >= Len(CompleteLines(ledger))]_vars

\* an append that failed, behind a block of two lines appended before it
C8_Witness ==
  /\ ch \notin {"t", "q", ""} /\ pc = "WAITING" /\ iterErrors > 0
  /\ ledger = iterLedger /\ Len(CompleteLines(ledger)) >= 2

(***************************************************************************)
(* C9, as stated: reading an input character that is none of the nine      *)
(* documented selectors changes neither ledger nor files, reports no error *)
(* and leaves the loop waiting.                                            *)
(***************************************************************************)
\* this step reads a selector
ReadsKey == pc = "WAITING" /\ requests' = requests + 1
\* this step leaves ledger and files alone, reports nothing and ends with
\* the loop waiting
NoOpStep ==
  /\ ledger' = ledger /\ files' = files
  /\ iterErrors' = 0 /\ iterAppends' = 0
  /\ pc' = "WAITING"

C9_UndocumentedKeyIsNoOp ==
  [][ReadsKey /\ key' \notin Documented => NoOpStep]_vars

(***************************************************************************)
(* C9, amended: reading an input character whose lower-case form is none   *)
(* of the nine documented selectors changes neither ledger nor files,      *)
(* reports no error and leaves the loop waiting.                           *)
(***************************************************************************)
C9_UnrecognizedKeyIsNoOp ==
  [][ReadsKey /\ Lower(key') \notin Documented => NoOpStep]_vars

\* an unrecognized key read while ledger and source directory hold content
C9_Witness ==
  /\ requests > 1 /\ key = "x" /\ pc = "WAITING"
  /\ ledger # <<>> /\ DOMAIN files # {}
  /\ ledger = iterLedger /\ files = iterFiles

(***************************************************************************)
(* C10: the loop is left only by reading the quit selector: no step of the *)
(* loop ends main() unless the selector read last is quit; and once the    *)
(* loop is left no file and no ledger is written.                          *)
(***************************************************************************)
\* main() is in its loop: waiting for a selector or acting on one
InLoop ==
  pc \notin {"load_config", "ensure_dirs", "enter_main", "exited",
             "done", "crashed"}

C10_OnlyQuitEndsLoop ==
  [][IF InLoop
       THEN pc' \in {"done", "crashed"} => ch' = "q"
       ELSE pc \in {"done", "crashed"} =>
              (pc' = pc /\ ledger' = ledger /\ files' = files)]_vars

\* no fixture write had failed when the selector was read: every file then
\* present was complete
EarlierWritesComplete ==
  \A p \in DOMAIN iterFiles : iterFiles[p] = FILE_CONTENT

(***************************************************************************)
(* C11: a successful valid request creates a new file: its path is the     *)
(* path of no file that existed when the selector was read, and the set of *)
(* files has grown by exactly one (stated for the iterations before which  *)
(* every fixture write had succeeded).                                     *)
(***************************************************************************)
C11_ValidCreatesNewFile ==
  ValidAppended /\ EarlierWritesComplete =>
    /\ file_path \notin DOMAIN iterFiles
    /\ Cardinality(DOMAIN files) = Cardinality(DOMAIN iterFiles) + 1

(***************************************************************************)
(* C12: a file that holds the complete payload holds it in every later     *)
(* state: no step empties, rewrites or removes it.                         *)
(***************************************************************************)
C12_WrittenFileNeverChanges ==
  [][\A p \in DOMAIN files :
       files[p] = FILE_CONTENT => p \in DOMAIN files' /\ files'[p] = FILE_CONTENT]_vars

(***************************************************************************)
(* C13: when the append or the truncate of an iteration reported an I/O    *)
(* error, the ledger is what it was when the selector was read, and the    *)
(* loop has not been left.                                                 *)
(***************************************************************************)
LedgerCallFailed == iterErrors > 0 /\ ~fixtureFailed

C13_FailedLedgerCallKeepsLedger ==
  LedgerCallFailed => ledger = iterLedger /\ pc # "done"

(***************************************************************************)
(* C14: when an extra_row block has been appended, the path in its first   *)
(* line is under the source directory and names no existing file (stated   *)
(* for the iterations before which every fixture write had succeeded).     *)
(***************************************************************************)
C14_ExtraRowPathNamesNoFile ==
  ch = "3" /\ AppendDone /\ EarlierWritesComplete =>
    LET path == PathText(CompleteLines(Appended)[1])
    IN  /\ IsPrefix(DirStr(SRC_DIR_PATH.dir) \o <<Slash>>, path)
        /\ \A p \in DOMAIN files : PathStr(p) # path

(***************************************************************************)
(* C15: the path in the record an 'outside' request has appended is        *)
(* absolute and does not have the configured source directory as a prefix, *)
(* whatever source directory is configured.                                *)
(***************************************************************************)
C15_OutsidePathIsOutside ==
  ch = "o" /\ AppendDone =>
    LET path == PathText(CompleteLines(Appended)[1])
    IN  /\ path # <<>> /\ path[1] = Slash
        /\ ~IsPrefix(DirStr(SRC_DIR_PATH.dir) \o <<Slash>>, path)

(***************************************************************************)
(* C16: what a 'relative' or 'outside' request has appended is exactly one *)
(* line of three comma-separated fields, an integer, a path that ends in   *)
(* the file name, and the digest of the fixed payload; for 'relative' the  *)
(* path is the bare file name, with no "/".                                *)
(***************************************************************************)
C16_InvalidPathRecordIsWellFormed ==
  ch \in {"r", "o"} /\ AppendDone =>
    /\ Len(CompleteLines(Appended)) = 1
    /\ PartialLine(Appended) = <<>>
    /\ Len(AppendedFields) = 3
    /\ IsIntField(AppendedFields[1])
    /\ AppendedFields[2] # <<>>
    /\ AppendedFields[2][Len(AppendedFields[2])] = NameTok(filename)
    /\ AppendedFields[3] = <<StrTok(Sha256(FILE_CONTENT))>>
    /\ ch = "r" => AppendedFields[2] = <<NameTok(filename)>>

\* a 'relative' record has been appended behind an earlier record
C16_Witness ==
  /\ ch = "r" /\ AppendDone /\ iterAppends = 1
  /\ iterLedger # <<>>
  /\ Len(CompleteLines(ledger)) = Len(CompleteLines(iterLedger)) + 1
  /\ LastLine(ledger) = <<IntTok(epoch_time), Comma, NameTok(filename),
                          Comma, StrTok(FILE_HASH)>>

(***************************************************************************)
(* C18: from the moment a malformed-CSV or invalid-path selector is read,  *)
(* through the whole of its iteration, the files and their contents are    *)
(* those present when the selector was read.                               *)
(***************************************************************************)
C18_RecordSelectorsLeaveFiles ==
  ch \in {"1", "2", "3", "4", "r", "o"} => files = iterFiles

\* an extra_row block has been appended while a fixture file exists
C18_Witness ==
  /\ ch = "3" /\ pc = "WAITING" /\ iterAppends = 1
  /\ DOMAIN files # {}
  /\ ledger # iterLedger
  /\ files = iterFiles

\* the configuration cannot be used, or a start-up step has reported CRITICAL
StartupFails == config.state # "ok" \/ startupFailed

(***************************************************************************)
(* C19: when config.ini is absent, lacks a required key or cannot be       *)
(* parsed, or a directory cannot be created, the process exits without     *)
(* entering the loop: main() never waits for a selector, none is read, and *)
(* files and ledger stay as the process found them; once exited, nothing   *)
(* changes any more.                                                       *)
(***************************************************************************)
C19_StartupFailureExitsBeforeLoop ==
  /\ [](StartupFails =>
          /\ pc \in {"load_config", "exited"}
          /\ requests = 0 /\ key = ""
          /\ files = iterFiles /\ ledger = iterLedger
          /\ iterAppends = 0)
  /\ [](startupFailed => pc = "exited")
  /\ [][pc = "exited" =>
          pc' = "exited" /\ UNCHANGED <<files, ledger, key, requests>>]_vars

\* the configuration was read, a directory could not be created, and the
\* process has exited, leaving the ledger and the file it found
C19_Witness ==
  /\ pc = "exited" /\ startupFailed /\ config.state = "ok"
  /\ SRC_DIR_PATH = config.source_dir
  /\ requests = 0
  /\ ledger # <<>> /\ DOMAIN files # {}

(***************************************************************************)
(* C17: the request that arrived as number k is held for the delay exactly *)
(* when k is a multiple of 20, and is answered 200 "OK" either way; when   *)
(* no request is in progress, of the N requests handled N div 20 were      *)
(* delayed.  Stated for the runs in which no increment of the counter was  *)
(* lost.                                                                   *)
(***************************************************************************)
\* every `upload_counter += 1` so far has counted: the counter is the number
\* of requests that have passed line 22
NoLostUpdate ==
  upload_counter =
    arrivals - Cardinality({t \in Threads :
                             handler[t].pc \in {"incr_load", "incr_store"}})

C17_EveryTwentiethArrivalDelayed ==
  NoLostUpdate =>
    /\ \A r \in responses :
         /\ r.status = 200 /\ r.body = "OK"
         /\ r.delayed <=> r.k % DelayEvery = 0
    /\ (\A t \in Threads : handler[t].pc = "idle") =>
         Cardinality({r \in responses : r.delayed}) = arrivals \div DelayEvery

====
